---- MODULE Spec2Model ----
(***************************************************************************)
(* A model of bin/resources.py: download_embedding (two existence gates    *)
(* around download_file and the gzip copy loop), download_file (a chunked  *)
(* HTTP download) and create_embedding_matrix (the word -> index mapping   *)
(* with its defaultdict fallback).                                         *)
(*                                                                         *)
(* Files are byte sequences, or NoFile when the path does not exist.       *)
(* The interpreter is Python 2 on POSIX, the only one on which the copy    *)
(* loop of lines 48-51 runs (it writes the byte strings gzip yields to a   *)
(* file opened 'w+').                                                      *)
(***************************************************************************)
EXTENDS Integers, Sequences, FiniteSets, TLC

\* ------------------------------------------------------------------ bounds
MaxPlain == 1          \* longest decompressed content the server may offer
MaxRuns == 2           \* invocations of a top-level function in one behaviour
MaxEmptyChunks == 1    \* empty chunks iter_content may yield in one transfer
MaxLookups == 3        \* subscript lookups on the returned mapping
RecursionLimit == 3    \* depth at which the interpreter raises on runaway recursion

\* --------------------------------------------------------------- constants
chunk_size == 1048576
LF == 10
GZ_ID1 == 31

\* The path does not exist: a value no byte sequence equals.
NoFile == <<-1>>
embedding_downloaded_path == "../resources/compressed/GoogleNews-vectors-negative300.bin.gz"
embedding_download_link == "https://s3.amazonaws.com/dl4j-distribution/GoogleNews-vectors-negative300.bin.gz"

Min(a, b) == IF a < b THEN a ELSE b

SeqUpTo(S, n) == UNION {[1..k -> S] : k \in 0..n}

\* os.path.exists(path)
exists(f) == f # NoFile

\* ------------------------------------------------------------ gzip library
\* The bytes a decompressed file is made of: a line feed and a letter.
PlainBytes == {LF, 65}

PlainContents == SeqUpTo(PlainBytes, MaxPlain)

\* A gzip member: the magic byte, the (stored) payload, the length trailer.
Gzip(data) == <<GZ_ID1>> \o data \o <<Len(data)>>

WellFormed(a) ==
    /\ Len(a) >= 2
    /\ a[1] = GZ_ID1
    /\ a[Len(a)] = Len(a) - 2
    /\ \A i \in 2..(Len(a) - 1) : a[i] \in PlainBytes

\* gzip reads an empty file as an empty stream, without raising.
GzipReadable(a) == a = <<>> \/ WellFormed(a)

\* The payload bytes the decompressor can hand out before it finds the
\* archive malformed: none without the magic, else the run of payload bytes.
Decodable(a) ==
    IF a = <<>> \/ a[1] # GZ_ID1 THEN <<>>
    ELSE IF WellFormed(a) THEN SubSeq(a, 2, Len(a) - 1)
    ELSE LET stop == {i \in 2..Len(a) : a[i] \notin PlainBytes}
             last == IF stop = {} THEN Len(a)
                     ELSE (CHOOSE i \in stop : \A j \in stop : i <= j) - 1
         IN  SubSeq(a, 2, last)

\* Length of the first line of s: up to and including the first line feed.
FirstLineLen(s) ==
    LET lfs == {i \in 1..Len(s) : s[i] = LF}
    IN  IF lfs = {} THEN Len(s) ELSE CHOOSE i \in lfs : \A j \in lfs : i <= j

\* `for line in zipped`: the lines of the decompressed stream, each with its
\* line feed, the last one possibly without.
RECURSIVE SplitLines(_)
SplitLines(s) ==
    IF s = <<>> THEN <<>>
    ELSE LET n == FirstLineLen(s)
         IN  <<SubSeq(s, 1, n)>> \o SplitLines(SubSeq(s, n + 1, Len(s)))

\* A write that strips the line terminator.
WriteStripped(f, line) ==
    f \o (IF line[Len(line)] = LF THEN SubSeq(line, 1, Len(line) - 1) ELSE line)

\* unzipped.write(line) on a file opened 'w+': the bytes are appended as they are.
Write(f, line) == f \o line

\* --------------------------------------------------------------- the server
\* What the server may answer: a well-formed archive, an empty body, or an
\* error page.
ErrorPage == <<60>>

Bodies == {Gzip(c) : c \in PlainContents} \cup {<<>>, ErrorPage}

Statuses == {200, 404}

NoResp == [status |-> 0, body |-> <<>>]

\* The filesystem before the program first runs.
InitArchives == {NoFile, Gzip(<<65, LF, LF, 65>>), ErrorPage}
InitEmbeddings == {NoFile, <<65>>}

\* ------------------------------------------------------------------- state
VARIABLES
    fs_archive,      \* the file at embedding_downloaded_path, or NoFile
    fs_embedding,    \* the file at get_conf('embedding_path'), or NoFile
    pc,              \* where the running invocation stands
    caller,          \* who called download_file: download_embedding or a direct caller
    resp,            \* r, the response requests.get returned
    pending,         \* the bytes of r's body iter_content has not yielded yet
    chunk_count,     \* download_file's chunk counter
    empties,         \* empty chunks yielded in this transfer
    ret,             \* what download_file returned
    lines,           \* the lines `for line in zipped` has not yielded yet
    fs0,             \* the two files as the running invocation found them
    net_calls,       \* requests.get calls made by the running invocation
    fetch_calls,     \* download_file calls made by the running download_embedding
    extract_calls,   \* times the running download_embedding opened the copy loop
    runs,            \* invocations started so far
    prev,            \* how the invocation before the running one ended
    model_vocab,     \* model.vocab of the loaded KeyedVectors: word -> index
    embedding_matrix,\* rows of the returned matrix (model.syn0.shape[0])
    word_to_index,   \* the mapping create_embedding_matrix returned
    ppc,             \* where the parser stands
    looked,          \* the last subscript lookup: its key and what it gave
    before,          \* the mapping as it was before the last lookup
    lookups          \* lookups made so far

fileVars == <<fs_archive, fs_embedding, pc, caller, resp, pending, chunk_count,
              empties, ret, lines, fs0, net_calls, fetch_calls, extract_calls,
              runs, prev>>
parserVars == <<model_vocab, embedding_matrix, word_to_index, ppc, looked, before, lookups>>
vars == <<fileVars, parserVars>>

Terminal == {"idle", "returned", "raised_get", "raised_stream", "raised_gzip"}

NoPrev == [caller |-> "none", pc |-> "idle", body |-> <<>>]

\* A top-level function is entered: the counters of the new invocation start
\* at zero and the files it finds are remembered.
Enter(who) ==
    /\ pc \in Terminal
    /\ runs < MaxRuns
    /\ runs' = runs + 1
    /\ caller' = who
    /\ prev' = [caller |-> caller, pc |-> pc, body |-> resp.body]
    /\ fs0' = [archive |-> fs_archive, embedding |-> fs_embedding]
    /\ net_calls' = 0 /\ fetch_calls' = 0 /\ extract_calls' = 0
    /\ resp' = NoResp /\ pending' = <<>> /\ chunk_count' = 0 /\ empties' = 0
    /\ ret' = "None" /\ lines' = <<>>
    /\ UNCHANGED <<fs_archive, fs_embedding>>

\* ------------------------------------------------------------ download_file
\* A caller other than download_embedding calls
\* download_file(embedding_download_link, embedding_downloaded_path).
CallDownloadFile ==
    /\ Enter("direct")
    /\ pc' = "df_get"
    /\ UNCHANGED parserVars

\* requests.get raises: no connection. Nothing was opened yet.
DfGetRaises ==
    /\ pc = "df_get"
    /\ net_calls' = net_calls + 1
    /\ pc' = "raised_get"
    /\ UNCHANGED <<fs_archive, fs_embedding, caller, resp, pending, chunk_count,
                   empties, ret, lines, fs0, fetch_calls, extract_calls, runs, prev>>
    /\ UNCHANGED parserVars

\* requests.get returns r, whatever its status, and the destination is
\* opened 'wb', which creates it or truncates it.
DfGetAndOpen ==
    /\ pc = "df_get"
    /\ \E st \in Statuses, body \in Bodies :
          /\ resp' = [status |-> st, body |-> body]
          /\ pending' = body
    /\ net_calls' = net_calls + 1
    /\ fs_archive' = <<>>
    /\ pc' = "df_iter"
    /\ UNCHANGED <<fs_embedding, caller, chunk_count, empties, ret, lines, fs0,
                   fetch_calls, extract_calls, runs, prev>>
    /\ UNCHANGED parserVars

\* A write that replaces what the file holds.
WriteChunkOverwrite(f, chunk) == IF chunk # <<>> THEN chunk ELSE f

\* f.write(chunk), guarded by `if chunk`.
WriteChunk(f, chunk) == IF chunk # <<>> THEN f \o chunk ELSE f

\* One turn of the loop over r.iter_content(chunk_size): a chunk of at most
\* chunk_size bytes, possibly empty, is written if it is not empty, and
\* counted.
DfChunk ==
    /\ pc = "df_iter"
    /\ \E n \in 0..Min(chunk_size, Len(pending)) :
          /\ n = 0 => empties < MaxEmptyChunks
          /\ empties' = IF n = 0 THEN empties + 1 ELSE empties
          /\ fs_archive' = WriteChunk(fs_archive, SubSeq(pending, 1, n))
          /\ pending' = SubSeq(pending, n + 1, Len(pending))
    /\ chunk_count' = chunk_count + 1
    /\ UNCHANGED <<fs_embedding, pc, caller, resp, ret, lines, fs0, net_calls,
                   fetch_calls, extract_calls, runs, prev>>
    /\ UNCHANGED parserVars

\* The connection breaks before the body is complete: iter_content raises,
\* the with block closes the destination with what was written so far.
DfStreamRaises ==
    /\ pc = "df_iter"
    /\ pending # <<>>
    /\ pc' = "raised_stream"
    /\ UNCHANGED <<fs_archive, fs_embedding, caller, resp, pending, chunk_count,
                   empties, ret, lines, fs0, net_calls, fetch_calls,
                   extract_calls, runs, prev>>
    /\ UNCHANGED parserVars

\* Where download_file's caller goes on.
AfterDownloadFile(who) == IF who = "download_embedding" THEN "gate2" ELSE "returned"

\* The body is exhausted: r.close(), return local_file_path.
DfReturn ==
    /\ pc = "df_iter"
    /\ pending = <<>>
    /\ ret' = embedding_downloaded_path
    /\ pc' = AfterDownloadFile(caller)
    /\ UNCHANGED <<fs_archive, fs_embedding, caller, resp, pending, chunk_count,
                   empties, lines, fs0, net_calls, fetch_calls, extract_calls,
                   runs, prev>>
    /\ UNCHANGED parserVars

\* ------------------------------------------------------- download_embedding
CallDownloadEmbedding ==
    /\ Enter("download_embedding")
    /\ pc' = "gate1"
    /\ UNCHANGED parserVars

\* A first gate that always downloads.
NeedsDownloadAlways(archive) == TRUE

\* A first gate that also downloads when the archive does not decompress.
NeedsDownloadValidating(archive) == ~exists(archive) \/ ~GzipReadable(archive)

\* `if not os.path.exists(embedding_downloaded_path)`
NeedsDownload(archive) == ~exists(archive)

\* Line 32: download the archive if it is not there.
Gate1 ==
    /\ pc = "gate1"
    /\ IF NeedsDownload(fs_archive)
       THEN /\ fetch_calls' = fetch_calls + 1
            /\ pc' = "df_get"
       ELSE /\ pc' = "gate2"
            /\ UNCHANGED fetch_calls
    /\ UNCHANGED <<fs_archive, fs_embedding, caller, resp, pending, chunk_count,
                   empties, ret, lines, fs0, net_calls, extract_calls, runs, prev>>
    /\ UNCHANGED parserVars

\* A second gate that extracts again after a fresh download.
NeedsExtractIfFetched(embedding) == ~exists(embedding) \/ fetch_calls > 0

\* A second gate that always extracts.
NeedsExtractAlways(embedding) == TRUE

\* `if not os.path.exists(get_conf('embedding_path'))`
NeedsExtract(embedding) == ~exists(embedding)

\* Line 43: extract the archive if the decompressed file is not there. The
\* with statement opens the archive through gzip and the output 'w+', which
\* creates it empty.
Gate2 ==
    /\ pc = "gate2"
    /\ IF NeedsExtract(fs_embedding)
       THEN /\ extract_calls' = extract_calls + 1
            /\ fs_embedding' = <<>>
            /\ lines' = SplitLines(Decodable(fs_archive))
            /\ pc' = "extract"
       ELSE /\ pc' = "returned"
            /\ UNCHANGED <<extract_calls, fs_embedding, lines>>
    /\ UNCHANGED <<fs_archive, caller, resp, pending, chunk_count, empties, ret,
                   fs0, net_calls, fetch_calls, runs, prev>>
    /\ UNCHANGED parserVars

\* One turn of `for line in zipped: unzipped.write(line)`.
ExtractLine ==
    /\ pc = "extract"
    /\ lines # <<>>
    /\ fs_embedding' = Write(fs_embedding, Head(lines))
    /\ lines' = Tail(lines)
    /\ UNCHANGED <<fs_archive, pc, caller, resp, pending, chunk_count, empties,
                   ret, fs0, net_calls, fetch_calls, extract_calls, runs, prev>>
    /\ UNCHANGED parserVars

\* gzip finds the archive malformed, at the latest when the decodable bytes
\* are used up: it raises, and the with block closes both files.
ExtractRaises ==
    /\ pc = "extract"
    /\ ~GzipReadable(fs_archive)
    /\ pc' = "raised_gzip"
    /\ UNCHANGED <<fs_archive, fs_embedding, caller, resp, pending, chunk_count,
                   empties, ret, lines, fs0, net_calls, fetch_calls,
                   extract_calls, runs, prev>>
    /\ UNCHANGED parserVars

\* The source is exhausted: both files are closed and download_embedding
\* returns.
ExtractDone ==
    /\ pc = "extract"
    /\ lines = <<>>
    /\ GzipReadable(fs_archive)
    /\ pc' = "returned"
    /\ UNCHANGED <<fs_archive, fs_embedding, caller, resp, pending, chunk_count,
                   empties, ret, lines, fs0, net_calls, fetch_calls,
                   extract_calls, runs, prev>>
    /\ UNCHANGED parserVars

\* ------------------------------------------------- create_embedding_matrix
\* The words a vocabulary may hold, and the keys a caller may look up.
Words == {"UNK", "the", "cat"}
Keys == Words \cup {"dog"}

\* model.vocab: each word of the vocabulary with its row, the rows being
\* 0 .. n-1, one per word.
Vocabs ==
    UNION {{v \in [W -> 0..(Cardinality(W) - 1)] :
              \A a, b \in W : a # b => v[a] # v[b]} : W \in SUBSET Words}

NoMap == <<>>
NoLookup == [key |-> "", ok |-> TRUE, val |-> -1]

RECURSIVE GetItem(_, _, _)

\* A default factory that answers the first row.
DefaultFactoryFirstRow(d, depth) == [ok |-> TRUE, val |-> 0, map |-> d]

\* default_factory, `lambda: word_to_index['UNK']`. By the time it is called
\* word_to_index names the defaultdict itself (line 116), so the lambda is a
\* subscript on the same mapping, one call deeper.
DefaultFactory(d, depth) == GetItem(d, "UNK", depth)

\* A __missing__ that answers the default without storing it.
MissingNoStore(d, k, depth) ==
    IF depth = 0 THEN [ok |-> FALSE, val |-> -1, map |-> d]
    ELSE LET r == DefaultFactory(d, depth - 1)
         IN  IF r.ok THEN [ok |-> TRUE, val |-> r.val, map |-> d] ELSE r

\* defaultdict.__missing__(k): call default_factory and, if it returns,
\* store its value under k. The interpreter raises when the calls nest
\* deeper than its recursion limit.
Missing(d, k, depth) ==
    IF depth = 0 THEN [ok |-> FALSE, val |-> -1, map |-> d]
    ELSE LET r == DefaultFactory(d, depth - 1)
         IN  IF r.ok
             THEN [ok |-> TRUE, val |-> r.val,
                   map |-> [x \in DOMAIN r.map \cup {k} |->
                              IF x = k THEN r.val ELSE r.map[x]]]
             ELSE r

\* word_to_index[k] on the returned defaultdict.
GetItem(d, k, depth) ==
    IF k \in DOMAIN d THEN [ok |-> TRUE, val |-> d[k], map |-> d]
    ELSE Missing(d, k, depth)

\* Lines 110-116: the dict of word -> v.index, copied into the defaultdict.
BuildWordToIndex(vocab) == [k \in DOMAIN vocab |-> vocab[k]]

\* load_word2vec_format raises: the file is missing or is no word-vector file.
LoadRaises ==
    /\ ppc = "start"
    /\ ppc' = "raised_load"
    /\ UNCHANGED <<model_vocab, embedding_matrix, word_to_index, looked, before, lookups>>
    /\ UNCHANGED fileVars

\* create_embedding_matrix with the model loaded: the matrix, the mapping,
\* and the two log lines, the second of which takes min() and max() of the
\* mapping's values and raises on an empty vocabulary.
CreateEmbeddingMatrix ==
    /\ ppc = "start"
    /\ exists(fs_embedding)
    /\ IF DOMAIN model_vocab = {}
       THEN /\ ppc' = "raised_min"
            /\ UNCHANGED <<embedding_matrix, word_to_index>>
       ELSE /\ ppc' = "ready"
            /\ embedding_matrix' = Cardinality(DOMAIN model_vocab)
            /\ word_to_index' = BuildWordToIndex(model_vocab)
    /\ UNCHANGED <<model_vocab, looked, before, lookups>>
    /\ UNCHANGED fileVars

\* A caller subscripts the returned mapping with k.
Lookup ==
    /\ ppc = "ready"
    /\ lookups < MaxLookups
    /\ \E k \in Keys :
          LET r == GetItem(word_to_index, k, RecursionLimit)
          IN  /\ looked' = [key |-> k, ok |-> r.ok, val |-> r.val]
              /\ word_to_index' = r.map
    /\ before' = word_to_index
    /\ lookups' = lookups + 1
    /\ UNCHANGED <<model_vocab, embedding_matrix, ppc>>
    /\ UNCHANGED fileVars

\* ------------------------------------------------------------ specifications
FilesInit ==
    /\ fs_archive \in InitArchives
    /\ fs_embedding \in InitEmbeddings
    /\ pc = "idle"
    /\ caller = "none"
    /\ resp = NoResp
    /\ pending = <<>>
    /\ chunk_count = 0
    /\ empties = 0
    /\ ret = "None"
    /\ lines = <<>>
    /\ fs0 = [archive |-> fs_archive, embedding |-> fs_embedding]
    /\ net_calls = 0 /\ fetch_calls = 0 /\ extract_calls = 0
    /\ runs = 0
    /\ prev = NoPrev

\* The parser before a model is loaded.
ParserIdle(vocabs) ==
    /\ model_vocab \in vocabs
    /\ embedding_matrix = 0
    /\ word_to_index = NoMap
    /\ ppc = "start"
    /\ looked = NoLookup
    /\ before = NoMap
    /\ lookups = 0

\* The program as it starts, no embedding model loaded.
Init == FilesInit /\ ParserIdle({NoMap})

\* download_embedding and download_file, with the parser not yet called.
Next ==
    \/ CallDownloadEmbedding
    \/ Gate1
    \/ CallDownloadFile
    \/ DfGetRaises
    \/ DfGetAndOpen
    \/ DfChunk
    \/ DfStreamRaises
    \/ DfReturn
    \/ Gate2
    \/ ExtractLine
    \/ ExtractRaises
    \/ ExtractDone

Spec == Init /\ [][Next]_vars

\* create_embedding_matrix and the lookups on what it returns, on the
\* filesystem as it stands.
ParserNext ==
    \/ LoadRaises
    \/ CreateEmbeddingMatrix
    \/ Lookup

\* The parser is handed any vocabulary a word-vector file may hold.
ParserInit == FilesInit /\ ParserIdle(Vocabs)

ParserSpec == ParserInit /\ [][ParserNext]_vars

\* --------------------------------------------------------------- properties
InDownloadEmbedding == caller = "download_embedding"

IsStrictPrefix(p, q) == Len(p) < Len(q) /\ p = SubSeq(q, 1, Len(p))

\* C1: in download_embedding, once the first gate is passed, download_file
\* was called exactly if the archive was absent when the invocation began,
\* whatever the decompressed file; with the archive present no request was
\* made, and with it absent the request was made.
C1_FetchIffArchiveAbsent ==
    (InDownloadEmbedding /\ pc # "gate1") =>
        /\ fetch_calls = (IF exists(fs0.archive) THEN 0 ELSE 1)
        /\ exists(fs0.archive) => net_calls = 0
        /\ (~exists(fs0.archive) /\ pc # "df_get") => net_calls = 1

C1_Witness ==
    /\ InDownloadEmbedding /\ pc = "returned"
    /\ exists(fs0.archive) /\ ~exists(fs0.embedding)
    /\ fetch_calls = 0 /\ net_calls = 0 /\ extract_calls = 1

BothPresent == exists(fs_archive) /\ exists(fs_embedding)

C3_NoOp ==
    (InDownloadEmbedding /\ exists(fs0.archive) /\ exists(fs0.embedding)) =>
        /\ net_calls = 0 /\ fetch_calls = 0 /\ extract_calls = 0
        /\ fs_archive = fs0.archive /\ fs_embedding = fs0.embedding
        /\ pc \in {"gate1", "gate2", "returned"}

\* C3: an invocation of download_embedding that finds both files present
\* makes no request, opens no copy loop, changes neither file and returns;
\* and once both files are present they stay present, so this holds of
\* every later invocation.
C3_RerunIsNoOp == [](C3_NoOp) /\ [][BothPresent => BothPresent']_vars

C3_Witness ==
    /\ runs = 2 /\ prev.caller = "download_embedding" /\ prev.pc = "returned"
    /\ InDownloadEmbedding /\ pc = "returned"
    /\ exists(fs0.archive) /\ exists(fs0.embedding)
    /\ net_calls = 0 /\ extract_calls = 0

\* C4: when download_file has returned, the destination holds exactly the
\* response body, in order, whatever it held before and however the body
\* was cut into chunks, and the value returned is the destination path.
C4_DownloadWritesBody ==
    ret # "None" =>
        /\ ret = embedding_downloaded_path
        /\ fs_archive = resp.body

C4_Witness ==
    /\ caller = "direct" /\ pc = "returned" /\ ret # "None"
    /\ exists(fs0.archive) /\ fs0.archive # <<>> /\ fs0.archive # resp.body
    /\ Len(resp.body) >= 2 /\ chunk_count >= 3 /\ empties >= 1

\* C5: a response whose status is not 200 makes download_file raise: it
\* does not return, and download_embedding does not reach the second gate.
C5_Non200Raises ==
    resp.status \notin {0, 200} =>
        /\ ret = "None"
        /\ pc \notin {"gate2", "extract", "returned", "raised_gzip"}

C9_AfterTruncation ==
    /\ (InDownloadEmbedding /\ pc = "raised_stream") =>
          /\ exists(fs_archive)
          /\ IsStrictPrefix(fs_archive, resp.body)
    /\ (InDownloadEmbedding /\ prev.caller = "download_embedding"
          /\ prev.pc = "raised_stream") =>
          /\ exists(fs0.archive)
          /\ IsStrictPrefix(fs0.archive, prev.body)
          /\ fetch_calls = 0 /\ net_calls = 0
          /\ fs_archive = fs0.archive
          /\ pc \in {"gate1", "gate2", "extract", "returned", "raised_gzip"}

\* C9: when download_file raises part-way through the transfer inside
\* download_embedding, the archive exists and holds a proper prefix of the
\* body; the next invocation of download_embedding makes no request, keeps
\* that truncated archive and goes from the first gate straight to the
\* second.
C9_PresenceNotValidity ==
    /\ [](C9_AfterTruncation)
    /\ [][(InDownloadEmbedding /\ prev.caller = "download_embedding"
            /\ prev.pc = "raised_stream" /\ pc = "gate1") => pc' = "gate2"]_vars

C9_Witness ==
    /\ InDownloadEmbedding /\ prev.caller = "download_embedding"
    /\ prev.pc = "raised_stream"
    /\ pc = "raised_gzip" /\ extract_calls = 1
    /\ Len(fs_archive) >= 1 /\ IsStrictPrefix(fs_archive, prev.body)

Looked == looked # NoLookup

\* C6: with "UNK" in the vocabulary, a lookup of a word of the vocabulary
\* gives that word's row, and a lookup of any other key succeeds and gives
\* the row of "UNK".
C6_FallbackToUnk ==
    (ppc = "ready" /\ "UNK" \in DOMAIN model_vocab) =>
        /\ \A w \in DOMAIN model_vocab :
              GetItem(word_to_index, w, RecursionLimit).val = model_vocab[w]
        /\ Looked =>
              /\ looked.ok
              /\ looked.val = (IF looked.key \in DOMAIN model_vocab
                               THEN model_vocab[looked.key]
                               ELSE model_vocab["UNK"])

C6_Witness ==
    /\ ppc = "ready" /\ "UNK" \in DOMAIN model_vocab
    /\ model_vocab["UNK"] = 2
    /\ looked.key = "dog" /\ looked.ok /\ looked.val = 2

\* C7: with "UNK" absent from the vocabulary, create_embedding_matrix
\* returns, a lookup of a key outside the vocabulary fails and a lookup of a
\* word of the vocabulary succeeds.
C7_NoUnkLookupFails ==
    (ppc # "start" /\ ppc # "raised_load" /\ "UNK" \notin DOMAIN model_vocab) =>
        /\ ppc = "ready"
        /\ Looked => (looked.ok <=> looked.key \in DOMAIN model_vocab)

\* C10 as claimed: lookups leave the mapping as it was built, its keys the
\* source vocabulary.
C10_ReadOnly ==
    ppc = "ready" =>
        /\ DOMAIN word_to_index = DOMAIN model_vocab
        /\ Looked => word_to_index = before

\* What a lookup of key k that answered v does to mapping d when k is absent.
Stored(d, k, v) == [x \in DOMAIN d \cup {k} |-> IF x = k THEN v ELSE d[x]]

\* C10, amended: the entries of the source vocabulary never change; a lookup
\* of a key the mapping holds, or a lookup that fails, leaves the mapping
\* as it was; a lookup of a key it does not hold that succeeds adds that
\* key with the row of "UNK"; so the keys are the source vocabulary and the
\* absent keys looked up so far. A lookup fails exactly if neither its key
\* nor "UNK" is in the vocabulary.
C10_GrowsOnMiss ==
    ppc = "ready" =>
        /\ \A w \in DOMAIN model_vocab :
              w \in DOMAIN word_to_index /\ word_to_index[w] = model_vocab[w]
        /\ \A k \in DOMAIN word_to_index \ DOMAIN model_vocab :
              "UNK" \in DOMAIN model_vocab /\ word_to_index[k] = model_vocab["UNK"]
        /\ Looked =>
              IF looked.key \in DOMAIN before \/ ~looked.ok
              THEN word_to_index = before
              ELSE word_to_index = Stored(before, looked.key, model_vocab["UNK"])
        /\ Looked =>
              (looked.ok <=> (looked.key \in DOMAIN model_vocab
                               \/ "UNK" \in DOMAIN model_vocab))

C10_Witness ==
    /\ ppc = "ready" /\ lookups >= 2
    /\ looked.key = "dog" /\ looked.ok
    /\ "dog" \notin DOMAIN before
    /\ "dog" \in DOMAIN word_to_index
    /\ DOMAIN word_to_index # DOMAIN model_vocab

====
